---- MODULE Spec2Model ----
(***************************************************************************)
(* The learning-path endpoints of backend/app/api/v1/endpoints/            *)
(* learning_path.py as a state machine over the relational store.          *)
(*                                                                         *)
(* Python values: an optional value (dict.get, Optional[int]) is a         *)
(* sequence, <<>> for None and <<v>> for v; a float is a reduced fraction  *)
(* [num, den]; a JSON object is a function from string keys.               *)
(***************************************************************************)
EXTENDS Integers, Sequences, FiniteSets, TLC

\* ---------------------------------------------------------------- bounds
NumUsers == 2
NumContents == 2
MaxPaths == 2
MaxEnroll == 2
MaxUpdates == 2
MaxRecPaths == 6
MaxRecEnroll == 1
MaxConcPaths == 1
NumWorkers == 2

\* ------------------------------------------------------ program constants
RecommendLimit == 5
ProgressCap == 100
DefaultProgress == 0

VARIABLES paths, pathSeq, enrollments, now, resp, pc, sess

vars == <<paths, pathSeq, enrollments, now, resp, pc, sess>>

\* ---------------------------------------------------------- Python values
None == <<>>

Some(v) == <<v>>

\* bool(x) of an optional integer: None and 0 are falsy
Truthy(opt) == opt # None /\ opt[1] # 0

\* dict.get(key, default)
GetOr(opt, default) == IF opt = None THEN default ELSE opt[1]

Digit == <<"0", "1", "2", "3", "4", "5", "6", "7", "8", "9">>

RECURSIVE Str(_)
\* str(n) of a non-negative integer
Str(n) == IF n < 10 THEN Digit[n + 1] ELSE Str(n \div 10) \o Digit[(n % 10) + 1]

IntKey(n) == [type |-> "int", val |-> Str(n)]

StrKey(s) == [type |-> "str", val |-> s]

\* Python's ==  between two dict keys: an int never equals a str
PyKeyEq(a, b) == a.type = b.type /\ a.val = b.val

\* key in d, for a dict d whose keys are strings
PyDictHas(d, key) == \E k \in DOMAIN d : PyKeyEq(StrKey(k), key)

\* d[k] = v
DictSet(d, k, v) == [x \in DOMAIN d \cup {k} |-> IF x = k THEN v ELSE d[x]]

EmptyDict == [k \in {} |-> 0]

RECURSIVE Gcd(_, _)
Gcd(a, b) == IF b = 0 THEN a ELSE Gcd(b, a % b)

Abs(n) == IF n < 0 THEN -n ELSE n

\* the float n / d  (d > 0)
Float(n, d) == LET g == Gcd(Abs(n), d) IN [num |-> n \div g, den |-> d \div g]

RECURSIVE SumValues(_)
\* sum(d.values())
SumValues(d) ==
    IF DOMAIN d = {} THEN 0
    ELSE LET k == CHOOSE x \in DOMAIN d : TRUE
         IN d[k] + SumValues([x \in DOMAIN d \ {k} |-> d[x]])

\* sum(d.values()) / len(d)
MeanValues(d) == Float(SumValues(d), Cardinality(DOMAIN d))

\* min(100, x)
MinCap(x) == IF x.num < ProgressCap * x.den THEN x ELSE Float(ProgressCap, 1)

\* --------------------------------------------------------------- storage
\* User and LearningContent rows are administered elsewhere
Users == 1 .. NumUsers

Contents == 1 .. NumContents

\* db.query(User).filter(User.id == user_id).first()
FindUser(user_id) == {u \in Users : u = user_id}

\* a lookup whose filter on the id is lost
FindPathIgnoringId(path_id) == paths

\* db.query(LearningPath).filter(LearningPath.id == path_id).first()
FindPath(path_id) == {p \in paths : p.id = path_id}

\* db.query(LearningContent).filter(LearningContent.id == content_id).first()
FindContent(content_id) == {c \in Contents : c = content_id}

\* a lookup whose filter on the path is lost
FindEnrollmentByUser(user_id, path_id) ==
    {e \in enrollments : e.user_id = user_id}

\* db.query(PathEnrollment).filter(user_id == .., path_id == ..)
FindEnrollment(user_id, path_id) ==
    {e \in enrollments : e.user_id = user_id /\ e.path_id = path_id}

\* db.query(PathEnrollment).filter(PathEnrollment.user_id == user_id).all()
EnrollmentsOf(user_id) == {e \in enrollments : e.user_id = user_id}

\* the autoincrement primary key of a new PathEnrollment row
NextEnrollmentId == Cardinality(enrollments) + 1

\* ------------------------------------------------------------- responses
Response(op, req, status, body) ==
    [op |-> op, req |-> req, status |-> status, body |-> body]

EnrollmentBody(e) ==
    [id |-> e.id, user_id |-> e.user_id, path_id |-> e.path_id,
     progress |-> e.progress, content_progress |-> e.content_progress]

\* ------------------------------------------------------------ createPath
create_learning_path(path_data) ==
    LET user_id == path_data.created_by IN
    IF Truthy(user_id) /\ FindUser(user_id[1]) = {}
    THEN /\ resp' = Response("create", path_data, 404, <<>>)
         /\ UNCHANGED <<paths, pathSeq, enrollments, now, pc, sess>>
    ELSE LET db_path == [id |-> pathSeq + 1, subject |-> path_data.subject,
                         created_by |-> user_id, contents |-> <<>>]
         IN /\ paths' = paths \cup {db_path}
            /\ pathSeq' = pathSeq + 1
            /\ resp' = Response("create", path_data, 201,
                                [id |-> db_path.id, subject |-> db_path.subject,
                                 created_by |-> db_path.created_by])
            /\ UNCHANGED <<enrollments, now, pc, sess>>

\* ---------------------------------------------------------------- enroll
\* lines 117-126: the new PathEnrollment row
NewEnrollment(enrollment_data) ==
    [id |-> NextEnrollmentId,
     user_id |-> enrollment_data.user_id,
     path_id |-> enrollment_data.path_id,
     progress |-> Float(0, 1),
     content_progress |-> EmptyDict,
     personalization_settings |-> GetOr(enrollment_data.personalization_settings, {}),
     last_activity_at |-> 0]

enroll_in_learning_path(enrollment_data) ==
    LET user_id == enrollment_data.user_id
        path_id == enrollment_data.path_id
    IN
    IF FindUser(user_id) = {} \/ FindPath(path_id) = {}
    THEN /\ resp' = Response("enroll", enrollment_data, 404, <<>>)
         /\ UNCHANGED <<paths, pathSeq, enrollments, now, pc, sess>>
    ELSE IF FindEnrollment(user_id, path_id) # {}
    THEN /\ \E existing_enrollment \in FindEnrollment(user_id, path_id) :
              resp' = Response("enroll", enrollment_data, 200,
                               EnrollmentBody(existing_enrollment))
         /\ UNCHANGED <<paths, pathSeq, enrollments, now, pc, sess>>
    ELSE LET db_enrollment == NewEnrollment(enrollment_data)
         IN /\ enrollments' = enrollments \cup {db_enrollment}
            /\ resp' = Response("enroll", enrollment_data, 200,
                                EnrollmentBody(db_enrollment))
            /\ UNCHANGED <<paths, pathSeq, now, pc, sess>>

\* --------------------------------------------------------------- getPath
\* the mock subjects with the first two ids treated alike
MockSubjectMerged(path_id) ==
    IF path_id = 1 \/ path_id = 2 THEN "programming" ELSE "other"

\* lines 169, 179, 187: the subject of the mock path and of its stubs
MockSubject(path_id) ==
    IF path_id = 1 THEN "programming"
    ELSE IF path_id = 2 THEN "data_science" ELSE "other"

\* lines 173-190: the two content stubs of the mock path
MockContents(path_id) ==
    <<[id |-> 101, content_type |-> "video",
       subject |-> MockSubject(path_id), difficulty_level |-> 1],
      [id |-> 102, content_type |-> "interactive",
       subject |-> MockSubject(path_id), difficulty_level |-> 2]>>

\* lines 165-201
MockPath(path_id, user_id) ==
    [id |-> path_id,
     subject |-> MockSubject(path_id),
     contents |-> MockContents(path_id),
     user_progress |->
        IF Truthy(user_id)
        THEN Some([overall_progress |-> Float(0, 1), content_progress |-> EmptyDict])
        ELSE None]

\* lines 217-232: the caller's progress snapshot on a stored path
UserProgress(path_id, user_id) ==
    IF Truthy(user_id) /\ FindEnrollment(user_id[1], path_id) # {}
    THEN {Some([overall_progress |-> e.progress,
                content_progress |-> e.content_progress]) :
            e \in FindEnrollment(user_id[1], path_id)}
    ELSE {None}

get_learning_path(path_id, user_id) ==
    /\ IF FindPath(path_id) = {}
       THEN resp' = Response("get", <<path_id, user_id>>, 200, MockPath(path_id, user_id))
       ELSE \E path \in FindPath(path_id) :
            \E user_progress \in UserProgress(path_id, user_id) :
               resp' = Response("get", <<path_id, user_id>>, 200,
                                [id |-> path.id, subject |-> path.subject,
                                 contents |-> path.contents,
                                 user_progress |-> user_progress])
    /\ UNCHANGED <<paths, pathSeq, enrollments, now, pc, sess>>

\* -------------------------------------------------------- updateProgress
\* lines 291-299: the content_progress map and the aggregate after the write
ProgressAfter(enrollment, path_id, content_id, progress) ==
    LET content_progress ==
            DictSet(enrollment.content_progress, Str(content_id), progress)
    IN [content_progress |-> content_progress,
        progress |-> IF PyDictHas(content_progress, IntKey(path_id))
                     THEN MinCap(MeanValues(content_progress))
                     ELSE enrollment.progress]

\* an UPDATE that leaves last_activity_at as it was
CommitProgressUnstamped(enrs, enrollment, after, at) ==
    {IF e.id = enrollment.id
     THEN [e EXCEPT !.content_progress = after.content_progress,
                    !.progress = after.progress]
     ELSE e : e \in enrs}

\* lines 301-302: the UPDATE of the row the session holds; the store stamps
\* last_activity_at on every update of the row
CommitProgress(enrs, enrollment, after, at) ==
    {IF e.id = enrollment.id
     THEN [e EXCEPT !.content_progress = after.content_progress,
                    !.progress = IF after.progress # enrollment.progress
                                 THEN after.progress ELSE e.progress,
                    !.last_activity_at = at]
     ELSE e : e \in enrs}

ProgressBody(e) ==
    [id |-> e.id, user_id |-> e.user_id, path_id |-> e.path_id,
     progress |-> e.progress, content_progress |-> e.content_progress,
     last_activity_at |-> e.last_activity_at]

update_path_progress(path_id, user_id, progress_data) ==
    LET req == <<path_id, user_id, progress_data>>
        content_id == progress_data.content_id
        progress == GetOr(progress_data.progress, DefaultProgress)
    IN
    IF FindEnrollment(user_id, path_id) = {}
    THEN /\ resp' = Response("update", req, 404, <<>>)
         /\ UNCHANGED <<paths, pathSeq, enrollments, now, pc, sess>>
    ELSE \E enrollment \in FindEnrollment(user_id, path_id) :
         IF Truthy(content_id)
         THEN IF FindContent(content_id[1]) = {}
              THEN /\ resp' = Response("update", req, 404, <<>>)
                   /\ UNCHANGED <<paths, pathSeq, enrollments, now, pc, sess>>
              ELSE LET after == ProgressAfter(enrollment, path_id, content_id[1], progress)
                   IN /\ now' = now + 1
                      /\ enrollments' = CommitProgress(enrollments, enrollment, after, now')
                      /\ \E e \in enrollments' :
                            /\ e.id = enrollment.id
                            /\ resp' = Response("update", req, 200, ProgressBody(e))
                      /\ UNCHANGED <<paths, pathSeq, pc, sess>>
         ELSE /\ resp' = Response("update", req, 200, ProgressBody(enrollment))
              /\ UNCHANGED <<paths, pathSeq, enrollments, now, pc, sess>>

\* ---------------------------------------------------------- listEnrolled
RECURSIVE ById(_)
\* the rows of a query in primary-key order
ById(rows) ==
    IF rows = {} THEN <<>>
    ELSE LET r == CHOOSE x \in rows : \A y \in rows : x.id <= y.id
         IN <<r>> \o ById(rows \ {r})

\* an entry built without the check that the path is stored
EnrolledEntryUnchecked(enrollment) ==
    <<[id |-> enrollment.path_id, subject |-> "", content_count |-> 0,
       progress |-> enrollment.progress]>>

\* lines 343-358: the entry of one enrollment, none when its path is gone
EnrolledEntry(enrollment) ==
    IF FindPath(enrollment.path_id) = {} THEN <<>>
    ELSE LET path == CHOOSE p \in FindPath(enrollment.path_id) : TRUE
         IN <<[id |-> path.id, subject |-> path.subject,
               content_count |-> Len(path.contents),
               progress |-> enrollment.progress]>>

RECURSIVE EnrolledEntries(_)
\* lines 341-358: the loop over the user's enrollments
EnrolledEntries(rows) ==
    IF rows = <<>> THEN <<>>
    ELSE EnrolledEntry(Head(rows)) \o EnrolledEntries(Tail(rows))

get_enrolled_learning_paths(user_id) ==
    /\ resp' = Response("enrolled", user_id, 200,
                        IF EnrollmentsOf(user_id) = {} THEN <<>>
                        ELSE EnrolledEntries(ById(EnrollmentsOf(user_id))))
    /\ UNCHANGED <<paths, pathSeq, enrollments, now, pc, sess>>

\* ------------------------------------------------------------- recommend
\* the candidates without the filter on the user's enrollments
RecommendCandidatesUnfiltered(user_id) == paths

\* lines 380-391: the paths the user has no enrollment in
RecommendCandidates(user_id) ==
    LET enrolled_path_ids == {e.path_id : e \in EnrollmentsOf(user_id)}
    IN IF enrolled_path_ids # {}
       THEN {p \in paths : p.id \notin enrolled_path_ids}
       ELSE paths

\* line 394: query.limit(5).all(), in no stated order
Limit(rows, n) ==
    {S \in SUBSET rows :
        Cardinality(S) = IF Cardinality(rows) < n THEN Cardinality(rows) ELSE n}

get_recommended_learning_paths(user_id) ==
    /\ IF FindUser(user_id) = {}
       THEN resp' = Response("recommend", user_id, 404, <<>>)
       ELSE \E rows \in Limit(RecommendCandidates(user_id), RecommendLimit) :
               resp' = Response("recommend", user_id, 200,
                                [i \in 1 .. Cardinality(rows) |->
                                    [id |-> ById(rows)[i].id,
                                     subject |-> ById(rows)[i].subject,
                                     content_count |-> Len(ById(rows)[i].contents)]])
    /\ UNCHANGED <<paths, pathSeq, enrollments, now, pc, sess>>

\* ------------------------------------------------- administration elsewhere
\* a LearningPath row deleted by code outside this file; enrollment rows stay
remove_learning_path(path_id) ==
    /\ FindPath(path_id) # {}
    /\ paths' = paths \ FindPath(path_id)
    /\ resp' = Response("remove", path_id, 200, <<>>)
    /\ UNCHANGED <<pathSeq, enrollments, now, pc, sess>>

\* ------------------------------------------- requests on concurrent workers
Workers == 1 .. NumWorkers

Idle(w) == pc[w] = "idle"

Goto(w, label, session) ==
    /\ pc' = [pc EXCEPT ![w] = label]
    /\ sess' = [sess EXCEPT ![w] = session]

\* enroll, lines 85-115: the existence checks and the query for a duplicate
EnrollCheck(w, enrollment_data) ==
    LET user_id == enrollment_data.user_id
        path_id == enrollment_data.path_id
    IN
    /\ Idle(w)
    /\ IF FindUser(user_id) = {} \/ FindPath(path_id) = {}
       THEN /\ resp' = Response("enroll", enrollment_data, 404, <<>>)
            /\ UNCHANGED <<pc, sess>>
       ELSE IF FindEnrollment(user_id, path_id) # {}
       THEN /\ \E existing_enrollment \in FindEnrollment(user_id, path_id) :
                 resp' = Response("enroll", enrollment_data, 200,
                                  EnrollmentBody(existing_enrollment))
            /\ UNCHANGED <<pc, sess>>
       ELSE /\ Goto(w, "enroll_insert", enrollment_data)
            /\ UNCHANGED resp
    /\ UNCHANGED <<paths, pathSeq, enrollments, now>>

\* enroll, lines 117-139: the insert, the commit and the response
EnrollInsert(w) ==
    /\ pc[w] = "enroll_insert"
    /\ LET db_enrollment == NewEnrollment(sess[w])
       IN /\ enrollments' = enrollments \cup {db_enrollment}
          /\ resp' = Response("enroll", sess[w], 200, EnrollmentBody(db_enrollment))
    /\ Goto(w, "idle", <<>>)
    /\ UNCHANGED <<paths, pathSeq, now>>

\* updateProgress, lines 266-279: the session loads the enrollment row
UpdateLoad(w, path_id, user_id, progress_data) ==
    /\ Idle(w)
    /\ IF FindEnrollment(user_id, path_id) = {}
       THEN /\ resp' = Response("update", <<path_id, user_id, progress_data>>, 404, <<>>)
            /\ UNCHANGED <<pc, sess>>
       ELSE /\ \E enrollment \in FindEnrollment(user_id, path_id) :
                 Goto(w, "update_write",
                      [path_id |-> path_id, user_id |-> user_id,
                       progress_data |-> progress_data, enrollment |-> enrollment])
            /\ UNCHANGED resp
    /\ UNCHANGED <<paths, pathSeq, enrollments, now>>

\* updateProgress, lines 281-311: the write of the loaded row, the commit,
\* the refresh and the response
UpdateWrite(w) ==
    /\ pc[w] = "update_write"
    /\ LET req == <<sess[w].path_id, sess[w].user_id, sess[w].progress_data>>
           enrollment == sess[w].enrollment
           content_id == sess[w].progress_data.content_id
           progress == GetOr(sess[w].progress_data.progress, DefaultProgress)
       IN
       IF Truthy(content_id)
       THEN IF FindContent(content_id[1]) = {}
            THEN /\ resp' = Response("update", req, 404, <<>>)
                 /\ UNCHANGED <<enrollments, now>>
            ELSE LET after == ProgressAfter(enrollment, sess[w].path_id,
                                            content_id[1], progress)
                 IN /\ now' = now + 1
                    /\ enrollments' = CommitProgress(enrollments, enrollment, after, now')
                    /\ \E e \in enrollments' :
                          /\ e.id = enrollment.id
                          /\ resp' = Response("update", req, 200, ProgressBody(e))
       ELSE /\ resp' = Response("update", req, 200, ProgressBody(enrollment))
            /\ UNCHANGED <<enrollments, now>>
    /\ Goto(w, "idle", <<>>)
    /\ UNCHANGED <<paths, pathSeq>>

\* ---------------------------------------------------------------- inputs
\* ids of requests: every stored id and one that is never stored
UserIds == 1 .. NumUsers + 1

OptUserIds == {None} \cup {Some(u) : u \in 0 .. NumUsers + 1}

Subjects == {"math", "other"}

PathData == [subject : Subjects, created_by : OptUserIds]

SeedPathData == [subject : {"math"}, created_by : {None}]

SettingsInputs == {None, Some({"fast_pace"})}

EnrollmentData ==
    [user_id : UserIds, path_id : 1 .. MaxPaths, personalization_settings : SettingsInputs]

SeedEnrollmentData(maxPath) ==
    [user_id : Users, path_id : 1 .. maxPath, personalization_settings : {None}]

ProgressData ==
    [content_id : {Some(c) : c \in Contents}, progress : {Some(40), Some(60)}]
    \cup [content_id : {None, Some(0), Some(1), Some(NumContents + 1)},
          progress : {None}]

ConcProgressData ==
    [content_id : {Some(c) : c \in Contents}, progress : {Some(40)}]
    \cup [content_id : {None}, progress : {None}]

\* the request would insert a row / write a row
Inserts(d) ==
    /\ FindUser(d.user_id) # {}
    /\ FindPath(d.path_id) # {}
    /\ FindEnrollment(d.user_id, d.path_id) = {}

Writes(d) == Truthy(d.content_id) /\ FindContent(d.content_id[1]) # {}

\* --------------------------------------------------------- specification
Init ==
    /\ paths = {}
    /\ pathSeq = 0
    /\ enrollments = {}
    /\ now = 0
    /\ resp = Response("init", <<>>, 0, <<>>)
    /\ pc = [w \in Workers |-> "idle"]
    /\ sess = [w \in Workers |-> <<>>]

\* requests handled one after another
CreatePath == \E d \in SeedPathData : pathSeq < MaxPaths /\ create_learning_path(d)

Enroll ==
    \E d \in EnrollmentData :
        /\ Inserts(d) => Cardinality(enrollments) < MaxEnroll
        /\ enroll_in_learning_path(d)

GetPath ==
    \E path_id \in 1 .. MaxPaths + 1, user_id \in OptUserIds :
        get_learning_path(path_id, user_id)

UpdateProgress ==
    \E path_id \in 1 .. MaxPaths, user_id \in Users, d \in ProgressData :
        /\ (FindEnrollment(user_id, path_id) # {} /\ Writes(d)) => now < MaxUpdates
        /\ update_path_progress(path_id, user_id, d)

ListEnrolled == \E user_id \in UserIds : get_enrolled_learning_paths(user_id)

Recommend == \E user_id \in UserIds : get_recommended_learning_paths(user_id)

Next ==
    \/ CreatePath
    \/ Enroll
    \/ GetPath
    \/ UpdateProgress
    \/ ListEnrolled
    \/ Recommend

Spec == Init /\ [][Next]_vars

\* path creation with every shape of input, and path detail
CreateAnyPath == \E d \in PathData : pathSeq < MaxPaths /\ create_learning_path(d)

PathNext == CreateAnyPath \/ GetPath

PathSpec == Init /\ [][PathNext]_vars

\* enrollment lists while paths are removed elsewhere
SeedEnroll ==
    \E d \in SeedEnrollmentData(MaxPaths) :
        /\ Inserts(d) => Cardinality(enrollments) < MaxEnroll
        /\ enroll_in_learning_path(d)

RemovePath == \E path_id \in 1 .. MaxPaths : remove_learning_path(path_id)

ListNext == CreatePath \/ SeedEnroll \/ RemovePath \/ ListEnrolled

ListSpec == Init /\ [][ListNext]_vars

\* recommendations over more paths than the limit
RecCreatePath ==
    \E d \in SeedPathData : pathSeq < MaxRecPaths /\ create_learning_path(d)

RecEnroll ==
    \E d \in SeedEnrollmentData(MaxRecPaths) :
        /\ Inserts(d) => Cardinality(enrollments) < MaxRecEnroll
        /\ enroll_in_learning_path(d)

RecNext == RecCreatePath \/ RecEnroll \/ Recommend

RecSpec == Init /\ [][RecNext]_vars

\* requests on concurrent workers, each in its own session
ConcCreatePath ==
    \E d \in SeedPathData : pathSeq < MaxConcPaths /\ create_learning_path(d)

ConcEnrollCheck ==
    \E w \in Workers, d \in SeedEnrollmentData(MaxConcPaths) :
        /\ Inserts(d) => Cardinality(enrollments) < MaxEnroll
        /\ EnrollCheck(w, d)

ConcEnrollInsert == \E w \in Workers : EnrollInsert(w)

ConcUpdateLoad ==
    \E w \in Workers, path_id \in 1 .. MaxConcPaths, user_id \in Users,
       d \in ConcProgressData :
        /\ Writes(d) => now < MaxUpdates
        /\ UpdateLoad(w, path_id, user_id, d)

ConcUpdateWrite == \E w \in Workers : UpdateWrite(w)

ConcNext ==
    \/ ConcCreatePath
    \/ ConcEnrollCheck
    \/ ConcEnrollInsert
    \/ ConcUpdateLoad
    \/ ConcUpdateWrite

ConcSpec == Init /\ [][ConcNext]_vars

\* ------------------------------------------------------------------ claims
\* the enrollment rows of a (user, path) pair in a set of rows
RowsOf(enrs, user_id, path_id) ==
    {e \in enrs : e.user_id = user_id /\ e.path_id = path_id}

Stored(path_id) == \E p \in paths : p.id = path_id

LastIs(op) == resp.op = op

\* C1: after a successful updateProgress that supplies a content id, the
\* enrollment's stored aggregate progress is min(100, mean of the values of
\* its content_progress map).
C1_AggregateIsCappedMean ==
    (LastIs("update") /\ resp.status = 200 /\ resp.req[3].content_id # None
        /\ resp.req[3].content_id \in {Some(c) : c \in Contents})
    => \A e \in RowsOf(enrollments, resp.req[2], resp.req[1]) :
          e.progress = MinCap(MeanValues(e.content_progress))

\* C2: with requests handled one after another, an enroll for a pair that has
\* an enrollment returns that enrollment's id, progress and content_progress
\* and changes no row (whatever settings it carries and whatever updates came
\* before); an enroll for a pair that has none returns the id of the one row
\* the pair has afterwards.
C2_EnrollIdempotent ==
    [][(resp'.op = "enroll" /\ resp'.status = 200)
        => LET d == resp'.req
               before == RowsOf(enrollments, d.user_id, d.path_id)
               after == RowsOf(enrollments', d.user_id, d.path_id)
           IN /\ Cardinality(after) = 1
              /\ \A e \in after : resp'.body.id = e.id
              /\ before # {} =>
                    /\ enrollments' = enrollments
                    /\ \A e \in before :
                          /\ resp'.body.progress = e.progress
                          /\ resp'.body.content_progress = e.content_progress]_vars

\* C2 witness: an enroll carrying settings answered with a row that holds
\* other settings and progress written by an earlier update.
C2_Witness ==
    /\ LastIs("enroll") /\ resp.status = 200
    /\ resp.req.personalization_settings = Some({"fast_pace"})
    /\ \E e \in RowsOf(enrollments, resp.req.user_id, resp.req.path_id) :
          /\ e.personalization_settings = {}
          /\ e.content_progress # EmptyDict
          /\ resp.body.id = e.id

\* C3: in every reachable state, also under interleaved enroll requests, a
\* (user, path) pair has at most one enrollment row.
C3_OneEnrollmentPerPair ==
    \A e1, e2 \in enrollments :
        (e1.user_id = e2.user_id /\ e1.path_id = e2.path_id) => e1 = e2

\* C4: updateProgress answers 404 when the pair has no enrollment and when a
\* content id is supplied that matches no stored content, and leaves every
\* enrollment row as it was.
C4_UpdateNotFound ==
    [][(resp'.op = "update"
          /\ \/ RowsOf(enrollments, resp'.req[2], resp'.req[1]) = {}
             \/ /\ resp'.req[3].content_id # None
                /\ resp'.req[3].content_id[1] \notin Contents)
        => /\ resp'.status = 404
           /\ enrollments' = enrollments]_vars

\* C5: recommend answers 404 for a user that is not stored; for a stored user
\* it returns at most 5 paths, none of which the user is enrolled in.
C5_RecommendExcludesEnrolled ==
    LastIs("recommend")
    => IF resp.req \notin Users
       THEN resp.status = 404
       ELSE /\ resp.status = 200
            /\ Len(resp.body) <= 5
            /\ \A i \in 1 .. Len(resp.body) :
                  /\ Stored(resp.body[i].id)
                  /\ \A e \in enrollments :
                        e.user_id = resp.req => e.path_id # resp.body[i].id

\* C5 witness: a user enrolled in one of more than 5 paths is recommended 5
\* others.
C5_Witness ==
    /\ LastIs("recommend") /\ resp.status = 200
    /\ Len(resp.body) = 5
    /\ \E e \in enrollments : e.user_id = resp.req
    /\ Cardinality(paths) > 5

\* C6: getPath always answers 200: for an id that is not stored, the mock with
\* that id, subject "programming" for 1, "data_science" for 2, "other" for the
\* rest, and the two content stubs 101 and 102; for a stored id, the stored
\* path's subject and contents.
C6_GetPathMockOrStored ==
    LastIs("get")
    => /\ resp.status = 200
       /\ resp.body.id = resp.req[1]
       /\ IF Stored(resp.req[1])
          THEN \E p \in paths :
                  /\ p.id = resp.req[1]
                  /\ resp.body.subject = p.subject
                  /\ resp.body.contents = p.contents
          ELSE /\ resp.body.subject =
                     CASE resp.req[1] = 1 -> "programming"
                       [] resp.req[1] = 2 -> "data_science"
                       [] OTHER -> "other"
               /\ Len(resp.body.contents) = 2
               /\ {resp.body.contents[i].id : i \in 1 .. 2} = {101, 102}
               /\ \A i \in 1 .. 2 : resp.body.contents[i].subject = resp.body.subject

\* C6 witness: the mock of id 2 is returned while path 1 is stored.
C6_Witness ==
    /\ LastIs("get")
    /\ resp.req[1] = 2
    /\ Stored(1) /\ ~Stored(2)
    /\ resp.body.subject = "data_science"

C8_ListEnrolledSkipsMissingPaths ==
    LastIs("enrolled")
    => LET mine == {e \in enrollments : e.user_id = resp.req}
           kept == {e \in mine : Stored(e.path_id)}
       IN /\ resp.status = 200
          /\ mine = {} => resp.body = <<>>
          /\ Len(resp.body) = Cardinality(kept)
          /\ \A e \in kept : \E i \in 1 .. Len(resp.body) :
                /\ resp.body[i].id = e.path_id
                /\ resp.body[i].progress = e.progress
          /\ \A i \in 1 .. Len(resp.body) : Stored(resp.body[i].id)

\* C8 witness: a user with one enrollment on a stored path and one on a
\* removed path gets a list of one entry.
C8_Witness ==
    /\ LastIs("enrolled")
    /\ Len(resp.body) = 1
    /\ \E e \in enrollments : e.user_id = resp.req /\ ~Stored(e.path_id)

\* C9: a committed updateProgress loses no entry of the stored
\* content_progress map: every key stored before the commit is stored after
\* it, with its value unless it is the key written.
C9_NoLostUpdate ==
    [][(resp'.op = "update" /\ resp'.status = 200 /\ enrollments' # enrollments)
        => \A e \in enrollments : \E f \in enrollments' :
              /\ f.id = e.id
              /\ \A k \in DOMAIN e.content_progress :
                    /\ k \in DOMAIN f.content_progress
                    /\ k # Str(resp'.req[3].content_id[1])
                          => f.content_progress[k] = e.content_progress[k]]_vars

====
